---- MODULE Spec2Model ----
(***************************************************************************)
(* Model of the FindLabs API client's authenticated request dispatcher:    *)
(* Client.doRequest, Client.getValidToken, Client.getRetryAfter,           *)
(* Client.decodeResponse, Client.DoRequestWithBasicAuth and                *)
(* auth.Service.GenerateToken.                                             *)
(*                                                                         *)
(* Each caller is one goroutine running one DoRequest call.  Time is in    *)
(* milliseconds.  A step of a caller is one block of its code between two  *)
(* points where another goroutine, the clock or the context can interfere. *)
(***************************************************************************)
EXTENDS Integers, Sequences, FiniteSets, TLC

\* ------------------------------------------------------------------ bounds
NumCallers == 2          \* goroutines calling DoRequest concurrently
MaxSeconds == 2          \* the clock is followed for this many seconds

\* ------------------------------------------------------- program constants
Second == 1000           \* time.Second, in milliseconds
Minute == 60000          \* time.Minute, in milliseconds
TenMinutes == 600000     \* 10*time.Minute, the validity getValidToken requests
maxRetries == 3          \* doRequest's attempt budget
StatusTooManyRequests == 429
ZeroTime == -1           \* the zero time.Time of a fresh Client: before every instant

Callers == 1..NumCallers
NoOne == 0               \* tokenMu is not held exclusively
EmptyToken == 0          \* the empty string ""; a token k > 0 is the k-th exchange's

\* The instants the clock can show.
Instants == {s * Second : s \in 0..MaxSeconds}

VARIABLES
    now,          \* time.Now()
    accessToken,  \* Client.accessToken
    tokenExpiry,  \* Client.tokenExpiry
    writer,       \* the goroutine holding tokenMu.Lock(), or NoOne
    readers,      \* the goroutines holding tokenMu.RLock()
    pc,           \* each caller's position in doRequest / getValidToken
    cancelled,    \* each caller's ctx.Done() is closed
    token,        \* getValidToken's local token; after it returned, the bearer token
    expiry,       \* getValidToken's local expiry
    tokenResp,    \* GenerateToken's result, before it is stored
    i,            \* doRequest's loop counter
    retryAfter,   \* doRequest's local retryAfter
    deadline,     \* when the pending time.After fires
    result,       \* what DoRequest returned
    \* history, read by the properties only
    exchangeCalls,  \* Auth.GenerateToken calls so far, by all callers
    exchBy,         \* ... by each caller
    exchFails,      \* GenerateToken calls that returned an error
    minted,         \* the <<token, expiry>> pairs successful exchanges returned
    ret,            \* how getValidToken returned: path, token, its expiry, when
    validAll,       \* the cache held a valid token during the whole getValidToken call
    together,       \* all callers were inside getValidToken at once, the cache stale
    cancelInfo,     \* where the caller was when its context was cancelled
    sends,          \* the transport calls of the request itself: when, status, header
    waitLog,        \* the retry waits: when started, how long
    path,           \* doRequest's path argument
    reqAuth,        \* the request's Authorization header
    wire,           \* history: every transport call made, its path and Authorization
    decoded,        \* what DecodeResponse was given and what it returned
    closed,         \* history: how often each response body of the call was closed
    sawRefresh,     \* history: the token stored while the caller waited for the lock
    built           \* the request builder the caller uses, and the fields it has set

cacheVars == <<accessToken, tokenExpiry>>
lockVars == <<writer, readers>>
gvtLocals == <<token, expiry, tokenResp>>
loopVars == <<i, retryAfter, deadline, sends, waitLog>>
exchHist == <<exchangeCalls, exchBy, exchFails, minted>>
vars == <<now, accessToken, tokenExpiry, writer, readers, pc, cancelled, token,
          expiry, tokenResp, i, retryAfter, deadline, result, exchangeCalls,
          exchBy, exchFails, minted, ret, validAll, together, cancelInfo, sends,
          waitLog, path, reqAuth, wire, decoded, closed, sawRefresh, built>>
histVars == <<closed, sawRefresh, built>>
wireVars == <<path, reqAuth, wire, decoded, histVars>>

\* --------------------------------------------------------------- errors.go
NilErr == "nil"
\* A result is DoRequest's (resp, err): resp is the response's status (0: nil), err
\* the error's dynamic type, cause what a wrapping error wraps.
NoResult == [resp |-> 0, err |-> "none", cause |-> "", retryAfter |-> 0]
OkResult(status) == [resp |-> status, err |-> NilErr, cause |-> "", retryAfter |-> 0]
\* fmt.Errorf("...: %w", err): a *fmt.wrapError around the cause
WrappedErr(cause) == [resp |-> 0, err |-> "wrapped", cause |-> cause, retryAfter |-> 0]
\* Mutant of the cancelled wait's error: a rate-limit error.
CtxErrAsRateLimit == [resp |-> 0, err |-> "RateLimit", cause |-> "", retryAfter |-> 0]

\* ctx.Err(): context.Canceled or context.DeadlineExceeded
CtxErr == [resp |-> 0, err |-> "ctx", cause |-> "", retryAfter |-> 0]
\* Mutant of the exhaustion error: a constant delay.
RateLimitErrOneSecond(d) ==
    [resp |-> 0, err |-> "RateLimit", cause |-> "", retryAfter |-> Second]

\* &RateLimitError{RetryAfter: d}
RateLimitErr(d) == [resp |-> 0, err |-> "RateLimit", cause |-> "", retryAfter |-> d]

\* IsRateLimitError: a type assertion on the error itself, not on what it wraps
IsRateLimitError(r) == r.err = "RateLimit"
\* Mutant of IsAPIError: every wrapping error taken for the API error it may wrap.
IsAPIErrorOrWrapped(r) == r.err \in {"API", "wrapped"}

\* IsAPIError: likewise
IsAPIError(r) == r.err = "API"

\* ------------------------------------------------- paths and Authorization
\* The path doRequest sends without a token.
ExchangePath == "/auth/v1/generate"
\* Mutant of GenerateToken's path: another endpoint.
GenerateTokenPathOther == "/auth/v1/token"
\* The path GenerateToken passes to DoRequestWithBasicAuth.
GenerateTokenPath == "/auth/v1/generate"
\* A path of the API proper, as the request builders make them.
ApiPath == "/flow/v1/block/1"

\* The credentials NewClient was given.
Username == "username"
Password == "password"

\* base64.StdEncoding.EncodeToString of the concatenation of the strings
Base64(strs) == <<"base64">> \o strs

\* An Authorization header value: the scheme, and the bearer token or the
\* encoded credentials after it.  NoAuth: the header is not set.
NoAuth == [scheme |-> "", token |-> EmptyToken, basic |-> <<>>]
\* "Bearer "+token
BearerAuth(tok) == [scheme |-> "Bearer", token |-> tok, basic |-> <<>>]
\* "Basic "+base64(username + ":" + password)
BasicAuth(username, password) ==
    [scheme |-> "Basic", token |-> EmptyToken, basic |-> Base64(<<username, ":", password>>)]

\* Mutant of the path test: the token is fetched for every path.
NeedsTokenAlways(pth) == TRUE

\* if path != "/auth/v1/generate"
NeedsToken(pth) == pth # ExchangePath

\* A transport call as the server sees it: which function made it, for which
\* caller, to which path, with which Authorization header.
WireCall(via, p, pth, auth) ==
    [via |-> via, by |-> p, path |-> pth, auth |-> auth, query |-> <<>>]

\* No token was stored while the caller waited for the lock.
NoRefresh == [seen |-> FALSE, tok |-> EmptyToken, exp |-> ZeroTime]

\* The caller uses no request builder: it calls DoRequest itself.
NoBuilder == [name |-> "", required |-> <<>>, set |-> {}]

\* DecodeResponse has not been called.
NotDecoded == [called |-> FALSE, status |-> 0, body |-> "", bodyOK |-> FALSE,
               hasTarget |-> FALSE, err |-> "none", errStatus |-> 0, errMessage |-> ""]

\* ------------------------------------------------------------ the token cache
\* token != "" && time.Now().Add(time.Minute).Before(expiry)
TokenValid(tok, exp, t) == tok # EmptyToken /\ t + Minute < exp

CacheValid == TokenValid(accessToken, tokenExpiry, now)

InGvt(p) == pc[p] \in {"gvt_rlock", "gvt_runlock", "gvt_check", "gvt_lock",
                       "gen_wait", "gvt_store", "gvt_store_exp"}

\* The history of "the cache was valid all along", for the callers inside
\* getValidToken after this step.
Track ==
    /\ validAll' = [q \in Callers |->
            IF pc'[q] = "idle" THEN FALSE
            ELSE IF pc[q] = "idle" THEN CacheValid /\ CacheValid'
            ELSE IF InGvt(q) THEN validAll[q] /\ CacheValid'
            ELSE validAll[q]]
    /\ together' = (together \/ ((\A q \in Callers : InGvt(q)') /\ ~CacheValid'))

\* How getValidToken returned: by which path, the token returned, the expiry
\* recorded for it, the time, the cache's token at that time, and the status
\* of the exchange's answer (0: none, or a transport error).
NoRet == [path |-> "none", tok |-> EmptyToken, exp |-> ZeroTime, at |-> 0,
          cur |-> EmptyToken, exch |-> 0]
Returned(how, tok, exp, exch) ==
    [path |-> how, tok |-> tok, exp |-> exp, at |-> now, cur |-> accessToken,
     exch |-> exch]

NotCancelled == [pc |-> "none", calls |-> 0]

\* ------------------------------------------------------------------- Init
Init ==
    /\ now = 0
    /\ accessToken = EmptyToken
    /\ tokenExpiry = ZeroTime
    /\ writer = NoOne
    /\ readers = {}
    /\ pc = [p \in Callers |-> "idle"]
    /\ cancelled = [p \in Callers |-> FALSE]
    /\ token = [p \in Callers |-> EmptyToken]
    /\ expiry = [p \in Callers |-> ZeroTime]
    /\ tokenResp = [p \in Callers |-> <<EmptyToken, ZeroTime>>]
    /\ i = [p \in Callers |-> 0]
    /\ retryAfter = [p \in Callers |-> 0]
    /\ deadline = [p \in Callers |-> 0]
    /\ result = [p \in Callers |-> NoResult]
    /\ exchangeCalls = 0
    /\ exchBy = [p \in Callers |-> 0]
    /\ exchFails = 0
    /\ minted = {}
    /\ ret = [p \in Callers |-> NoRet]
    /\ validAll = [p \in Callers |-> FALSE]
    /\ together = FALSE
    /\ cancelInfo = [p \in Callers |-> NotCancelled]
    /\ sends = [p \in Callers |-> <<>>]
    /\ waitLog = [p \in Callers |-> <<>>]
    /\ path = [p \in Callers |-> ""]
    /\ reqAuth = [p \in Callers |-> NoAuth]
    /\ wire = {}
    /\ decoded = [p \in Callers |-> NotDecoded]
    /\ closed = [p \in Callers |-> <<>>]
    /\ sawRefresh = [p \in Callers |-> NoRefresh]
    /\ built = [p \in Callers |-> NoBuilder]

\* ------------------------------------------------------------ environment
\* The clock advances by a second.
Tick ==
    /\ now + Second \in Instants
    /\ now' = now + Second
    /\ UNCHANGED <<wireVars, cacheVars, lockVars, pc, cancelled, cancelInfo, gvtLocals, loopVars, result,
                   exchHist, ret>>
    /\ Track

\* The caller's context is cancelled (or its deadline passes).  The context is
\* read only by httpClient.Do and by the retry wait's select, and a caller
\* blocked in tokenMu.Lock() is where spec section 5 asks for it to be read;
\* a cancellation at any other point acts as one at the next of these.
Cancel(p) ==
    /\ pc[p] \in {"gvt_lock", "gen_wait", "send", "wait"}
    /\ ~cancelled[p]
    /\ cancelled' = [cancelled EXCEPT ![p] = TRUE]
    /\ cancelInfo' = [cancelInfo EXCEPT ![p] = [pc |-> pc[p], calls |-> Len(sends[p])]]
    /\ UNCHANGED <<wireVars, now, cacheVars, lockVars, pc, gvtLocals, loopVars, result,
                   exchHist, ret>>
    /\ Track

\* --------------------------------------------------------------- doRequest
\* doRequest is entered with the path pth: the URL is built and the request
\* created (an invalid URL or method ends the call); for a path that needs a
\* token getValidToken is entered, for the exchange path the loop is entered
\* with no Authorization header.
doRequest(p, pth) ==
    /\ pc[p] = "idle"
    /\ path' = [path EXCEPT ![p] = pth]
    /\ \E urlOK \in BOOLEAN :
          IF urlOK
          THEN /\ pc' = [pc EXCEPT ![p] = IF NeedsToken(pth) THEN "gvt_rlock" ELSE "send"]
               /\ UNCHANGED result
          ELSE /\ pc' = [pc EXCEPT ![p] = "done"]
               /\ result' = [result EXCEPT ![p] = WrappedErr("url")]
    /\ UNCHANGED <<reqAuth, wire, decoded, histVars, now, cacheVars, lockVars, cancelled,
                   cancelInfo, gvtLocals, loopVars, exchHist, ret>>
    /\ Track

\* DoRequest is called for a path of the API, through no builder.
Call(p) == built[p] = NoBuilder /\ doRequest(p, ApiPath)

\* Request builders, each with its required fields in the order Do tests
\* them: one with none, with one, with two, with three.
Builders ==
    {[name |-> "BlocksRequestBuilder", required |-> <<>>],
     [name |-> "BlockRequestBuilder", required |-> <<"height">>],
     [name |-> "AccountFTTokenRequestBuilder", required |-> <<"address", "token">>],
     [name |-> "EventsRequestBuilder", required |-> <<"name", "fromHeight", "toHeight">>]}

\* A builder as Do finds it: set holds the required fields that were given a
\* value other than "" or 0.
BuilderInputs ==
    UNION {{[name |-> b.name, required |-> b.required, set |-> fs] :
               fs \in SUBSET {b.required[k] : k \in 1..Len(b.required)}} : b \in Builders}

\* Mutant of Do's tests: no field is tested.
NothingMissing(b) == <<>>

\* The required fields Do finds unset, in the order of its tests.
MissingFields(b) == SelectSeq(b.required, LAMBDA f : f \notin b.set)

\* return nil, fmt.Errorf("... is required")
RequiredErr(field) == [resp |-> 0, err |-> "required", cause |-> field, retryAfter |-> 0]

\* A builder's Do: the first required field found unset ends it with an
\* error; with none unset it calls client.DoRequest for its path.
BuilderDo(p) ==
    /\ built[p] # NoBuilder
    /\ IF MissingFields(built[p]) # <<>>
       THEN /\ pc[p] = "idle"
            /\ pc' = [pc EXCEPT ![p] = "rejected"]
            /\ result' = [result EXCEPT ![p] = RequiredErr(Head(MissingFields(built[p])))]
            /\ UNCHANGED <<wireVars, now, cacheVars, lockVars, cancelled, cancelInfo,
                           gvtLocals, loopVars, exchHist, ret>>
            /\ Track
       ELSE doRequest(p, ApiPath)

\* DoRequest is called for the credential-exchange path.
CallExchangePath(p) == doRequest(p, ExchangePath)

\* ----------------------------------------------------------- getValidToken
\* Mutant of the read lock: granted while a writer holds the lock.
RLockIgnoresWriter == TRUE

\* Mutant of the read lock: not granted while another reader holds it.
RLockExclusive == writer = NoOne /\ readers = {}

\* tokenMu.RLock() is granted: no goroutine holds tokenMu.Lock()
CanRLock == writer = NoOne

\* Mutant of the write lock: granted while another writer holds the lock.
LockIgnoresWriter == readers = {}

\* tokenMu.Lock() is granted: no goroutine holds the lock in either mode
CanLock == writer = NoOne /\ readers = {}

\* c.tokenMu.RLock(); token := c.accessToken
GvtRLock(p) ==
    /\ pc[p] = "gvt_rlock"
    /\ CanRLock
    /\ readers' = readers \cup {p}
    /\ token' = [token EXCEPT ![p] = accessToken]
    /\ pc' = [pc EXCEPT ![p] = "gvt_runlock"]
    /\ UNCHANGED <<wireVars, now, cacheVars, writer, cancelled, cancelInfo, expiry, tokenResp, loopVars,
                   result, exchHist, ret>>
    /\ Track

\* expiry := c.tokenExpiry; c.tokenMu.RUnlock()
GvtRUnlock(p) ==
    /\ pc[p] = "gvt_runlock"
    /\ expiry' = [expiry EXCEPT ![p] = tokenExpiry]
    /\ readers' = readers \ {p}
    /\ pc' = [pc EXCEPT ![p] = "gvt_check"]
    /\ UNCHANGED <<wireVars, now, cacheVars, writer, cancelled, cancelInfo, token, tokenResp, loopVars,
                   result, exchHist, ret>>
    /\ Track

\* Mutants of the fast path's test: the safety margin dropped; the requested
\* validity used as the margin.
FastPathNoMargin(p) == token[p] # EmptyToken /\ now < expiry[p]
FastPathWrongMargin(p) == token[p] # EmptyToken /\ now + TenMinutes < expiry[p]

\* The fast path's test of the values read under the read lock.
FastPathHit(p) == TokenValid(token[p], expiry[p], now)

\* if token != "" && time.Now().Add(time.Minute).Before(expiry) { return token, nil }
GvtCheck(p) ==
    /\ pc[p] = "gvt_check"
    /\ IF FastPathHit(p)
       THEN /\ pc' = [pc EXCEPT ![p] = "header"]
            /\ ret' = [ret EXCEPT ![p] = Returned("fast", token[p], expiry[p], 0)]
       ELSE /\ pc' = [pc EXCEPT ![p] = "gvt_lock"]
            /\ UNCHANGED ret
    /\ UNCHANGED <<wireVars, now, cacheVars, lockVars, cancelled, cancelInfo, gvtLocals, loopVars, result,
                   exchHist>>
    /\ Track

\* time.Hour
Hour == 60 * Minute

\* Duration.String() of a whole number of seconds below an hour or of whole
\* hours: "10m0s", "1h0m0s".
DurationString(d) ==
    IF d >= Hour
    THEN <<d \div Hour, "h", (d % Hour) \div Minute, "m", (d % Minute) \div Second, "s">>
    ELSE <<d \div Minute, "m", (d % Minute) \div Second, "s">>

\* Mutant of the double check: no second look at the cache.
DoubleCheckSkipped == FALSE

\* The test repeated under the write lock.
DoubleCheckHit == TokenValid(accessToken, tokenExpiry, now)

\* Mutant of the double check's return: the value read under the read lock.
DoubleCheckLocalToken(p) == token[p]

\* return c.accessToken, nil: the field as it is under the write lock.
DoubleCheckToken(p) == accessToken

\* The transport call GenerateToken makes through DoRequestWithBasicAuth, with
\* the credentials the auth service was constructed with.
ExchangeCallWith(p, validity) ==
    [WireCall("DoRequestWithBasicAuth", p, GenerateTokenPath, BasicAuth(Username, Password))
        EXCEPT !.query = <<"expiry", DurationString(validity)>>]

\* Mutant of the validity asked for: an hour.
RequestedValidityHour == Hour

\* c.Auth.GenerateToken(ctx, 10*time.Minute)
RequestedValidity == TenMinutes

\* The exchange call getValidToken makes.
ExchangeCall(p) == ExchangeCallWith(p, RequestedValidity)

\* c.tokenMu.Lock(); defer c.tokenMu.Unlock(); the double check; on a miss,
\* c.Auth.GenerateToken(ctx, 10*time.Minute) is called.
GvtLock(p) ==
    /\ pc[p] = "gvt_lock"
    /\ CanLock
    /\ IF DoubleCheckHit
       THEN /\ token' = [token EXCEPT ![p] = DoubleCheckToken(p)]
            /\ ret' = [ret EXCEPT ![p] = Returned("dcheck", DoubleCheckToken(p),
                                                   tokenExpiry, 0)]
            /\ pc' = [pc EXCEPT ![p] = "header"]
            /\ UNCHANGED <<writer, exchangeCalls, exchBy, wire>>
       ELSE /\ writer' = p
            /\ wire' = wire \cup {ExchangeCall(p)}
            /\ exchangeCalls' = exchangeCalls + 1
            /\ exchBy' = [exchBy EXCEPT ![p] = @ + 1]
            /\ pc' = [pc EXCEPT ![p] = "gen_wait"]
            /\ UNCHANGED <<token, ret>>
    /\ UNCHANGED <<path, reqAuth, decoded, histVars, now, cacheVars, readers, cancelled,
                   cancelInfo, expiry, tokenResp, loopVars, result, exchFails, minted>>
    /\ Track

\* ------------------------------------------- DecodeResponse, GenerateToken
\* Mutant of the status test: 300 taken for a success.
DecodeResponse300OK(status, bodyOK, hasTarget) ==
    IF status < 200 \/ status > 300 THEN "API"
    ELSE IF ~hasTarget THEN NilErr
    ELSE IF ~bodyOK THEN "decode"
    ELSE NilErr

\* decodeResponse's error for a response with this status, a body that parses
\* or not, and a target or none: "nil", "API" (*APIError) or "decode" (wrapped).
DecodeResponse(status, bodyOK, hasTarget) ==
    IF status < 200 \/ status >= 300 THEN "API"
    ELSE IF ~hasTarget THEN NilErr
    ELSE IF ~bodyOK THEN "decode"
    ELSE NilErr

\* time.Unix(sec, 0)
Unix(sec) == sec * Second

\* What the credential-exchange endpoint can answer to one call at time t: no
\* answer (a transport error), or a status with a body; a body that parses
\* carries an access token (possibly empty) and exp, in Unix seconds.
ExchangeStatuses == {200, 401, 429}
\* exp - now, in seconds: stale at once (now + 1 minute is not before it), valid
\* for one more second, valid for the validity asked for.
ExpOffsets == {60, 61, 600}
ExchangeAnswers(t, k) ==
    {[net |-> FALSE, status |-> 0, bodyOK |-> FALSE, tok |-> EmptyToken, exp |-> 0]}
    \cup {[net |-> TRUE, status |-> s, bodyOK |-> FALSE, tok |-> EmptyToken, exp |-> 0] :
             s \in ExchangeStatuses}
    \cup {[net |-> TRUE, status |-> 200, bodyOK |-> TRUE, tok |-> k,
           exp |-> (t \div Second) + off] : off \in ExpOffsets}
    \cup {[net |-> TRUE, status |-> 200, bodyOK |-> TRUE, tok |-> EmptyToken,
           exp |-> (t \div Second) + 600]}

\* httpClient.Do(req) with a cancelled context returns the context's error.
ExchangeOutcomesOf(p, k) ==
    IF cancelled[p]
    THEN {a \in ExchangeAnswers(now, k) : ~a.net}
    ELSE ExchangeAnswers(now, k)

\* The answers to the exchange call in flight, the exchangeCalls-th.
ExchangeOutcomes(p) == ExchangeOutcomesOf(p, exchangeCalls)

\* GenerateToken's error for an answer: DoRequestWithBasicAuth's transport
\* error, else DecodeResponse's.
GenerateTokenErr(a) ==
    IF ~a.net THEN "transport" ELSE DecodeResponse(a.status, a.bodyOK, TRUE)

\* Mutant of doRequest's token error: the exchange's error returned as it is.
TokenFailureUnwrapped(inner) ==
    [resp |-> 0, err |-> inner, cause |-> "", retryAfter |-> 0]

\* doRequest's error when getValidToken failed with the error inner:
\* fmt.Errorf("failed to get valid token: %w", fmt.Errorf("failed to generate
\* token: %w", inner))
TokenFailure(inner) == WrappedErr("token")

\* Mutant of the error return: the cache is cleared.
FailureClearsCache == accessToken' = EmptyToken /\ tokenExpiry' = ZeroTime

\* return "", fmt.Errorf("failed to generate token: %w", err): the error return
\* assigns neither cache field.
FailureKeepsCache == UNCHANGED cacheVars

\* Mutant of the error return: the write lock is kept.
UnlockForgotten == UNCHANGED writer

\* defer c.tokenMu.Unlock(), run by the error return
DeferredUnlock == writer' = NoOne

\* tokenResp, err := c.Auth.GenerateToken(ctx, 10*time.Minute) returns; on an
\* error getValidToken returns it wrapped, releasing the lock, and doRequest
\* returns it wrapped again.
GenerateTokenReturn(p) ==
    /\ pc[p] = "gen_wait"
    /\ \E a \in ExchangeOutcomes(p) :
          IF GenerateTokenErr(a) = NilErr
          THEN /\ tokenResp' = [tokenResp EXCEPT ![p] = <<a.tok, a.exp>>]
               /\ minted' = minted \cup {<<a.tok, Unix(a.exp)>>}
               /\ pc' = [pc EXCEPT ![p] = "gvt_store"]
               /\ UNCHANGED <<cacheVars, writer, exchFails, ret, result>>
          ELSE /\ FailureKeepsCache
               /\ exchFails' = exchFails + 1
               /\ DeferredUnlock
               /\ ret' = [ret EXCEPT ![p] = Returned("fail", EmptyToken, ZeroTime,
                                                      a.status)]
               /\ result' = [result EXCEPT ![p] = TokenFailure(GenerateTokenErr(a))]
               /\ pc' = [pc EXCEPT ![p] = "done"]
               /\ UNCHANGED <<tokenResp, minted>>
    /\ UNCHANGED <<wireVars, now, readers, cancelled, cancelInfo, token, expiry, loopVars,
                   exchangeCalls, exchBy>>
    /\ Track

\* c.accessToken = tokenResp.AccessToken
GvtStore(p) ==
    /\ pc[p] = "gvt_store"
    /\ accessToken' = tokenResp[p][1]
    /\ pc' = [pc EXCEPT ![p] = "gvt_store_exp"]
    /\ UNCHANGED <<wireVars, now, tokenExpiry, lockVars, cancelled, cancelInfo, gvtLocals, loopVars, result,
                   exchHist, ret>>
    /\ Track

\* c.tokenExpiry = time.Unix(tokenResp.Exp, 0); return c.accessToken, nil; the
\* deferred Unlock.
GvtStoreExpiry(p) ==
    /\ pc[p] = "gvt_store_exp"
    /\ tokenExpiry' = Unix(tokenResp[p][2])
    /\ token' = [token EXCEPT ![p] = accessToken]
    /\ ret' = [ret EXCEPT ![p] = Returned("mint", accessToken, Unix(tokenResp[p][2]),
                                           200)]
    /\ writer' = NoOne
    /\ sawRefresh' = [q \in Callers |->
            IF q # p /\ pc[q] = "gvt_lock"
            THEN [seen |-> TRUE, tok |-> accessToken, exp |-> Unix(tokenResp[p][2])]
            ELSE sawRefresh[q]]
    /\ pc' = [pc EXCEPT ![p] = "header"]
    /\ UNCHANGED <<path, reqAuth, wire, decoded, closed, built, now, accessToken, readers,
                   cancelled, cancelInfo, expiry, tokenResp, loopVars, result, exchHist>>
    /\ Track

\* ------------------------------------------------------- the token cache alone
TokenStep(p) ==
    \/ Call(p)
    \/ GvtRLock(p)
    \/ GvtRUnlock(p)
    \/ GvtCheck(p)
    \/ GvtLock(p)
    \/ GenerateTokenReturn(p)
    \/ GvtStore(p)
    \/ GvtStoreExpiry(p)

NextToken ==
    \/ Tick
    \/ \E p \in Callers : Cancel(p)
    \/ \E p \in Callers : TokenStep(p)

\* Concurrent callers up to the point where getValidToken has returned.
SpecToken == Init /\ [][NextToken]_vars

\* ------------------------------------------------------------ getRetryAfter
Millisecond == 1         \* time.Millisecond, the unit "ms" of time.ParseDuration

\* A Retry-After header value, by what the two parsers make of its text: no
\* header; the decimal integer n; a decimal fraction, as "1.5" (val: its value
\* in thousandths); an integer followed by the letter m, as "5m"; an HTTP-date;
\* any other text.
NoHeader == [kind |-> "absent", val |-> 0]
SecondsHeader(n) == [kind |-> "seconds", val |-> n]
FractionHeader(thousandths) == [kind |-> "fraction", val |-> thousandths]
LetterMHeader(n) == [kind |-> "letter-m", val |-> n]
DateHeader(t) == [kind |-> "date", val |-> t]
OtherHeader == [kind |-> "other", val |-> 0]

\* time.ParseDuration(retryAfter + "s"): the text with an s appended is a
\* duration string when the text is a decimal number, with or without a
\* fraction (n seconds), and when it is a number followed by m (n of the unit
\* "ms"); a date or other text is none.
ParseDuration(h) ==
    IF h.kind = "seconds" THEN [ok |-> TRUE, d |-> h.val * Second]
    ELSE IF h.kind = "fraction" THEN [ok |-> TRUE, d |-> (h.val * Second) \div 1000]
    ELSE IF h.kind = "letter-m" THEN [ok |-> TRUE, d |-> h.val * Millisecond]
    ELSE [ok |-> FALSE, d |-> 0]

\* Mutant of the date parser: no text is a date.
ParseTimeRejectsAll(h) == [ok |-> FALSE, t |-> ZeroTime]

\* http.ParseTime(retryAfter)
ParseTime(h) ==
    IF h.kind = "date" THEN [ok |-> TRUE, t |-> h.val]
    ELSE [ok |-> FALSE, t |-> ZeroTime]

\* getRetryAfter(resp), called at time t
getRetryAfter(h, t) ==
    IF h.kind = "absent" THEN Second
    ELSE IF ParseDuration(h).ok THEN ParseDuration(h).d
    ELSE IF ParseTime(h).ok THEN ParseTime(h).t - t
    ELSE Second

\* ------------------------------------------------------------ the retry loop
\* What the transport can return for one call at time t: an error (status 0),
\* or a response; a 429 may carry any Retry-After header.
Statuses == {200, 204, 300, 401, 403, 404, 500, StatusTooManyRequests}
RetryAfterHeaders(t) ==
    {NoHeader, OtherHeader} \cup {SecondsHeader(n) : n \in 0..2}
    \cup {FractionHeader(1500), LetterMHeader(5)}
    \cup {DateHeader(t - Second), DateHeader(t + Second)}
TransportAnswers(t) ==
    {[status |-> 0, hdr |-> NoHeader]}
    \cup {[status |-> st, hdr |-> NoHeader] : st \in Statuses \ {StatusTooManyRequests}}
    \cup {[status |-> StatusTooManyRequests, hdr |-> h] : h \in RetryAfterHeaders(t)}

\* httpClient.Do(req) with a cancelled context returns the context's error.
TransportOutcomes(p) ==
    IF cancelled[p]
    THEN {a \in TransportAnswers(now) : a.status = 0}
    ELSE TransportAnswers(now)

\* Mutant of the retry test: one attempt too many.
RetryLeftOffByOne(n) == n < maxRetries

\* Mutant of the retry test: a wait after every 429.
RetryLeftAlways(n) == TRUE

\* Whether a 429 on attempt i is retried: i < maxRetries-1
RetryLeft(n) == n < maxRetries - 1

\* Mutant of the error test: the transport's error ignored.
TransportErrorIgnored(a) == FALSE

\* err != nil after c.httpClient.Do(req)
TransportFailed(a) == a.status = 0

\* Mutant of the status test: server errors retried as well.
IsRateLimitedOrServerError(status) == status = StatusTooManyRequests \/ status >= 500

\* Mutant of the status test: no status is a rate limit.
IsRateLimitedNever(status) == FALSE

\* resp.StatusCode == http.StatusTooManyRequests
IsRateLimited(status) == status = StatusTooManyRequests

\* Mutant of the timer: ready at once.
TimerFiredAtOnce(p) == TRUE

\* <-time.After(retryAfter) is ready
TimerFired(p) == now >= deadline[p]

\* req.Header.Set("Authorization", "Bearer "+token), and the loop is entered.
SetHeader(p) ==
    /\ pc[p] = "header"
    /\ reqAuth' = [reqAuth EXCEPT ![p] = BearerAuth(token[p])]
    /\ pc' = [pc EXCEPT ![p] = "send"]
    /\ UNCHANGED <<path, wire, decoded, histVars, now, cacheVars, lockVars, cancelled, cancelInfo, gvtLocals, loopVars,
                   result, exchHist, ret>>
    /\ Track

\* Mutant of the header sent: the token is read from the cache at each attempt.
RequestHeaderFromCache(p) ==
    IF reqAuth[p].scheme = "Bearer" THEN BearerAuth(accessToken) ELSE reqAuth[p]

\* The Authorization header of an attempt: c.httpClient.Do(req) sends the one
\* request built before the loop, with the header set on it then.
RequestHeader(p) == reqAuth[p]

\* Mutant of the close: the body is left open.
CloseForgotten(n) == n

\* resp.Body.Close(), on a body closed n times so far
Close(n) == n + 1

\* One iteration of the loop: resp, err = c.httpClient.Do(req), and what
\* follows up to the select, the break or the return; with the budget used up
\* the loop ends and the last response is returned.
Send(p) ==
    /\ pc[p] = "send"
    /\ IF i[p] < maxRetries
       THEN \E a \in TransportOutcomes(p) :
          /\ sends' = [sends EXCEPT ![p] = Append(@, [at |-> now, status |-> a.status,
                                                      hdr |-> a.hdr])]
          /\ wire' = wire \cup {WireCall("DoRequest", p, path[p], RequestHeader(p))}
          /\ IF TransportFailed(a)
             THEN \* return nil, fmt.Errorf("request failed: %w", err)
                  /\ result' = [result EXCEPT ![p] = WrappedErr("transport")]
                  /\ pc' = [pc EXCEPT ![p] = "done"]
                  /\ closed' = [closed EXCEPT ![p] = Append(@, 0)]
                  /\ UNCHANGED <<retryAfter, deadline, waitLog>>
             ELSE IF IsRateLimited(a.status)
             THEN /\ retryAfter' = [retryAfter EXCEPT ![p] = getRetryAfter(a.hdr, now)]
                  \* resp.Body.Close() before the select, or deferred to the return
                  /\ closed' = [closed EXCEPT ![p] = Append(@, Close(0))]
                  /\ IF RetryLeft(i[p])
                     THEN \* resp.Body.Close(); the select starts time.After(retryAfter)
                          /\ deadline' = [deadline EXCEPT ![p] = now + retryAfter'[p]]
                          /\ waitLog' = [waitLog EXCEPT ![p] =
                                           Append(@, [at |-> now, delay |-> retryAfter'[p]])]
                          /\ pc' = [pc EXCEPT ![p] = "wait"]
                          /\ UNCHANGED result
                     ELSE \* return nil, &RateLimitError{RetryAfter: retryAfter}
                          /\ result' = [result EXCEPT ![p] = RateLimitErr(retryAfter'[p])]
                          /\ pc' = [pc EXCEPT ![p] = "done"]
                          /\ UNCHANGED <<deadline, waitLog>>
             ELSE \* break; return resp, nil
                  /\ result' = [result EXCEPT ![p] = OkResult(a.status)]
                  /\ pc' = [pc EXCEPT ![p] = "done"]
                  /\ closed' = [closed EXCEPT ![p] = Append(@, 0)]
                  /\ UNCHANGED <<retryAfter, deadline, waitLog>>
       ELSE \* i == maxRetries: return resp, nil
            /\ result' = [result EXCEPT ![p] = OkResult(sends[p][Len(sends[p])].status)]
            /\ pc' = [pc EXCEPT ![p] = "done"]
            /\ UNCHANGED <<retryAfter, deadline, sends, waitLog, wire, closed>>
    /\ UNCHANGED <<path, reqAuth, decoded, sawRefresh, built, now, cacheVars, lockVars,
                   cancelled, cancelInfo, gvtLocals, i, exchHist, ret>>
    /\ Track

\* case <-time.After(retryAfter): continue
WaitTimer(p) ==
    /\ pc[p] = "wait"
    /\ TimerFired(p)
    /\ i' = [i EXCEPT ![p] = @ + 1]
    /\ pc' = [pc EXCEPT ![p] = "send"]
    /\ UNCHANGED <<wireVars, now, cacheVars, lockVars, cancelled, cancelInfo, gvtLocals, retryAfter, deadline,
                   sends, waitLog, result, exchHist, ret>>
    /\ Track

\* case <-ctx.Done(): return nil, ctx.Err()
WaitCancel(p) ==
    /\ pc[p] = "wait"
    /\ cancelled[p]
    /\ result' = [result EXCEPT ![p] = CtxErr]
    /\ pc' = [pc EXCEPT ![p] = "done"]
    /\ UNCHANGED <<wireVars, now, cacheVars, lockVars, cancelled, cancelInfo, gvtLocals, loopVars, exchHist, ret>>
    /\ Track

\* The bodies a response can carry.
Bodies == {"", "not found"}

\* DecodeResponse(resp, v) for the response DoRequest returned, as the request
\* builders call it (with a target) or as any caller may (with none): the
\* error's type and, for an *APIError, its StatusCode and Message.
Decode(p) ==
    /\ pc[p] = "done"
    /\ result[p].err = NilErr
    /\ \E body \in Bodies, bodyOK, hasTarget \in BOOLEAN :
          LET err == DecodeResponse(result[p].resp, bodyOK, hasTarget)
          IN  decoded' = [decoded EXCEPT ![p] =
                  [called |-> TRUE, status |-> result[p].resp, body |-> body,
                   bodyOK |-> bodyOK, hasTarget |-> hasTarget, err |-> err,
                   errStatus |-> IF err = "API" THEN result[p].resp ELSE 0,
                   errMessage |-> IF err = "API" THEN body ELSE ""]]
    \* defer resp.Body.Close()
    /\ closed' = [closed EXCEPT ![p][Len(closed[p])] = Close(@)]
    /\ pc' = [pc EXCEPT ![p] = "decoded"]
    /\ UNCHANGED <<path, reqAuth, wire, sawRefresh, built, now, cacheVars, lockVars,
                   cancelled, cancelInfo, gvtLocals, loopVars, result, exchHist, ret>>
    /\ Track

\* The goroutine is in no call of the client: it has made none, or its
\* DoRequest returned an error, or its DecodeResponse returned.
BetweenCalls(p) ==
    \/ pc[p] = "idle"
    \/ pc[p] = "done" /\ result[p].err # NilErr
    \/ pc[p] = "decoded"

\* Mutant of the direct call: a token the exchange returned is put in the cache.
DirectStoresToken(a) ==
    IF GenerateTokenErr(a) = NilErr
    THEN accessToken' = a.tok /\ tokenExpiry' = Unix(a.exp)
    ELSE UNCHANGED cacheVars

\* Service.GenerateToken assigns no field of the client.
DirectKeepsCache(a) == UNCHANGED cacheVars

\* client.Auth.GenerateToken(ctx, time.Hour) called by the user: DoRequestWithBasicAuth
\* and DecodeResponse, under no lock; the token response goes to the caller and
\* nowhere in the client.
AuthGenerateToken(p) ==
    /\ BetweenCalls(p)
    /\ \E a \in ExchangeOutcomesOf(p, exchangeCalls + 1) :
          DirectKeepsCache(a)
    /\ exchangeCalls' = exchangeCalls + 1
    /\ wire' = wire \cup {ExchangeCallWith(p, Hour)}
    /\ pc' = [pc EXCEPT ![p] = "generated"]
    /\ UNCHANGED <<path, reqAuth, decoded, histVars, now, lockVars, cancelled, cancelInfo,
                   gvtLocals, loopVars, result, exchBy, exchFails, minted, ret>>
    /\ Track

RequestStep(p) ==
    \/ CallExchangePath(p)
    \/ AuthGenerateToken(p)
    \/ SetHeader(p)
    \/ Send(p)
    \/ WaitTimer(p)
    \/ WaitCancel(p)
    \/ Decode(p)

Next ==
    \/ Tick
    \/ \E p \in Callers : Cancel(p)
    \/ \E p \in Callers : TokenStep(p)
    \/ \E p \in Callers : RequestStep(p)

\* One DoRequest call on a fresh client, from the call to its return: the other
\* goroutines never call.
InitReq ==
    /\ Init!1 /\ Init!2 /\ Init!3 /\ Init!4 /\ Init!5
    /\ pc = [p \in Callers |-> IF p = 1 THEN "idle" ELSE "off"]
    /\ cancelled = [p \in Callers |-> FALSE]
    /\ token = [p \in Callers |-> EmptyToken]
    /\ expiry = [p \in Callers |-> ZeroTime]
    /\ tokenResp = [p \in Callers |-> <<EmptyToken, ZeroTime>>]
    /\ i = [p \in Callers |-> 0]
    /\ retryAfter = [p \in Callers |-> 0]
    /\ deadline = [p \in Callers |-> 0]
    /\ result = [p \in Callers |-> NoResult]
    /\ exchangeCalls = 0
    /\ exchBy = [p \in Callers |-> 0]
    /\ exchFails = 0
    /\ minted = {}
    /\ ret = [p \in Callers |-> NoRet]
    /\ validAll = [p \in Callers |-> FALSE]
    /\ together = FALSE
    /\ cancelInfo = [p \in Callers |-> NotCancelled]
    /\ sends = [p \in Callers |-> <<>>]
    /\ waitLog = [p \in Callers |-> <<>>]
    /\ path = [p \in Callers |-> ""]
    /\ reqAuth = [p \in Callers |-> NoAuth]
    /\ wire = {}
    /\ decoded = [p \in Callers |-> NotDecoded]
    /\ closed = [p \in Callers |-> <<>>]
    /\ sawRefresh = [p \in Callers |-> NoRefresh]
    /\ built = [p \in Callers |-> NoBuilder]

SpecReq == InitReq /\ [][Next]_vars

\* ------------------------------------------------- two concurrent DoRequest calls
\* The runs followed for two concurrent calls: the first second; a server that
\* answers 200 or 429, the 429 without Retry-After or with Retry-After: 0,
\* bodies that parse, and an exchange that returns tokens valid for the
\* validity asked for; a context is cancelled, if at all, during a retry wait,
\* and the transport fails only on a cancelled context.
PlainServer ==
    /\ now <= Second
    /\ \A p \in Callers : \A k \in 1..Len(sends[p]) :
          /\ sends[p][k].status \in {0, 200, StatusTooManyRequests}
          /\ sends[p][k].hdr \in {NoHeader, SecondsHeader(0)}
    /\ \A m \in minted : m[1] # EmptyToken /\ m[2] >= Unix(600)
    /\ \A p \in Callers :
          /\ ret[p].path # "fail"
          /\ result[p] # WrappedErr("url")
          /\ cancelInfo[p].pc \in {"none", "wait"}
          /\ (Len(sends[p]) >= 1 /\ sends[p][Len(sends[p])].status = 0) => cancelled[p]
          /\ decoded[p].body = ""
          /\ decoded[p].called => (decoded[p].hasTarget /\ decoded[p].bodyOK)
          /\ pc[p] = "generated" => path[p] = ""

NextPair == Next /\ PlainServer'

\* Callers 1 and 2 call DoRequest concurrently on a fresh client.
InitPair ==
    /\ Init!1 /\ Init!2 /\ Init!3 /\ Init!4 /\ Init!5
    /\ pc = [p \in Callers |-> IF p <= 2 THEN "idle" ELSE "off"]
    /\ cancelled = [p \in Callers |-> FALSE]
    /\ token = [p \in Callers |-> EmptyToken]
    /\ expiry = [p \in Callers |-> ZeroTime]
    /\ tokenResp = [p \in Callers |-> <<EmptyToken, ZeroTime>>]
    /\ i = [p \in Callers |-> 0]
    /\ retryAfter = [p \in Callers |-> 0]
    /\ deadline = [p \in Callers |-> 0]
    /\ result = [p \in Callers |-> NoResult]
    /\ exchangeCalls = 0
    /\ exchBy = [p \in Callers |-> 0]
    /\ exchFails = 0
    /\ minted = {}
    /\ ret = [p \in Callers |-> NoRet]
    /\ validAll = [p \in Callers |-> FALSE]
    /\ together = FALSE
    /\ cancelInfo = [p \in Callers |-> NotCancelled]
    /\ sends = [p \in Callers |-> <<>>]
    /\ waitLog = [p \in Callers |-> <<>>]
    /\ path = [p \in Callers |-> ""]
    /\ reqAuth = [p \in Callers |-> NoAuth]
    /\ wire = {}
    /\ decoded = [p \in Callers |-> NotDecoded]
    /\ closed = [p \in Callers |-> <<>>]
    /\ sawRefresh = [p \in Callers |-> NoRefresh]
    /\ built = [p \in Callers |-> NoBuilder]

\* Each goroutine that can take a step takes one; the clock runs on; and a
\* context left waiting is eventually cancelled (its deadline passes).
Fairness ==
    /\ WF_vars(Tick /\ PlainServer')
    /\ \A p \in Callers :
          /\ WF_vars(Cancel(p) /\ PlainServer')
          /\ WF_vars((TokenStep(p) \/ RequestStep(p)) /\ PlainServer')

SpecPair == InitPair /\ [][NextPair]_vars /\ Fairness

\* ------------------------------------------- a cache filled before the calls
\* The expiries of a token cached before the calls: exactly at the margin, and
\* one second beyond it.
WarmExpiries == {Minute, Minute + Second}

\* Callers 1 and 2 are about to call on a client whose cache is empty, or
\* holds token 1 from an exchange made before, about to reach the margin.
InitWarm ==
    /\ now = 0
    /\ \/ /\ accessToken = EmptyToken
          /\ tokenExpiry = ZeroTime
          /\ exchangeCalls = 0
          /\ minted = {}
       \/ /\ accessToken = 1
          /\ tokenExpiry \in WarmExpiries
          /\ exchangeCalls = 1
          /\ minted = {<<accessToken, tokenExpiry>>}
    /\ writer = NoOne
    /\ readers = {}
    /\ pc = [p \in Callers |-> IF p <= 2 THEN "idle" ELSE "off"]
    /\ cancelled = [p \in Callers |-> FALSE]
    /\ token = [p \in Callers |-> EmptyToken]
    /\ expiry = [p \in Callers |-> ZeroTime]
    /\ tokenResp = [p \in Callers |-> <<EmptyToken, ZeroTime>>]
    /\ i = [p \in Callers |-> 0]
    /\ retryAfter = [p \in Callers |-> 0]
    /\ deadline = [p \in Callers |-> 0]
    /\ result = [p \in Callers |-> NoResult]
    /\ exchBy = [p \in Callers |-> 0]
    /\ exchFails = 0
    /\ ret = [p \in Callers |-> NoRet]
    /\ validAll = [p \in Callers |-> FALSE]
    /\ together = FALSE
    /\ cancelInfo = [p \in Callers |-> NotCancelled]
    /\ sends = [p \in Callers |-> <<>>]
    /\ waitLog = [p \in Callers |-> <<>>]
    /\ path = [p \in Callers |-> ""]
    /\ reqAuth = [p \in Callers |-> NoAuth]
    /\ wire = {}
    /\ decoded = [p \in Callers |-> NotDecoded]
    /\ closed = [p \in Callers |-> <<>>]
    /\ sawRefresh = [p \in Callers |-> NoRefresh]
    /\ built = [p \in Callers |-> NoBuilder]

\* Every goroutine that can take a step of its call takes one, and an exchange
\* call in flight is answered.
FairCallers == \A p \in Callers : WF_vars(TokenStep(p))

SpecWarm == InitWarm /\ [][NextToken]_vars /\ FairCallers

\* --------------------------------------------------- request builders
\* Caller 1 calls DoRequest itself or calls Do on a builder, some of whose
\* required fields may be unset; the other goroutines never call.
InitDo ==
    /\ Init!1 /\ Init!2 /\ Init!3 /\ Init!4 /\ Init!5
    /\ pc = [p \in Callers |-> IF p = 1 THEN "idle" ELSE "off"]
    /\ \E b \in BuilderInputs \cup {NoBuilder} :
          built = [p \in Callers |-> IF p = 1 THEN b ELSE NoBuilder]
    /\ cancelled = [p \in Callers |-> FALSE]
    /\ token = [p \in Callers |-> EmptyToken]
    /\ expiry = [p \in Callers |-> ZeroTime]
    /\ tokenResp = [p \in Callers |-> <<EmptyToken, ZeroTime>>]
    /\ i = [p \in Callers |-> 0]
    /\ retryAfter = [p \in Callers |-> 0]
    /\ deadline = [p \in Callers |-> 0]
    /\ result = [p \in Callers |-> NoResult]
    /\ exchangeCalls = 0
    /\ exchBy = [p \in Callers |-> 0]
    /\ exchFails = 0
    /\ minted = {}
    /\ ret = [p \in Callers |-> NoRet]
    /\ validAll = [p \in Callers |-> FALSE]
    /\ together = FALSE
    /\ cancelInfo = [p \in Callers |-> NotCancelled]
    /\ sends = [p \in Callers |-> <<>>]
    /\ waitLog = [p \in Callers |-> <<>>]
    /\ path = [p \in Callers |-> ""]
    /\ reqAuth = [p \in Callers |-> NoAuth]
    /\ wire = {}
    /\ decoded = [p \in Callers |-> NotDecoded]
    /\ closed = [p \in Callers |-> <<>>]
    /\ sawRefresh = [p \in Callers |-> NoRefresh]

NextDo ==
    \/ Tick
    \/ \E p \in Callers : Cancel(p)
    \/ \E p \in Callers : TokenStep(p)
    \/ \E p \in Callers : BuilderDo(p)

SpecDo == InitDo /\ [][NextDo]_vars

\* ------------------------------------- two callers and tokens that go stale
\* The environment of the two-caller check of the token a call carries: the
\* exchange returns tokens that are valid for one second, then within the
\* margin; a 429 asks for a wait of one second; nothing else fails, and the
\* calls are over within a second.
ShortLivedServer ==
    /\ now <= Second
    /\ \A p \in Callers : \A k \in 1..Len(sends[p]) :
          /\ sends[p][k].status \in {0, 200, StatusTooManyRequests}
          /\ sends[p][k].hdr \in {NoHeader, SecondsHeader(1)}
          /\ sends[p][k].status = StatusTooManyRequests => sends[p][k].hdr = SecondsHeader(1)
    /\ \A m \in minted : m[1] # EmptyToken /\ m[2] <= now + Minute + Second
    /\ \A p \in Callers :
          /\ ret[p].path # "fail"
          /\ result[p] # WrappedErr("url")
          /\ cancelInfo[p].pc \in {"none", "wait"}
          /\ (Len(sends[p]) >= 1 /\ sends[p][Len(sends[p])].status = 0) => cancelled[p]
          /\ decoded[p].body = ""
          /\ decoded[p].called => (decoded[p].hasTarget /\ decoded[p].bodyOK)
          /\ pc[p] = "generated" => path[p] = ""

NextStale == Next /\ ShortLivedServer'

SpecStale == InitPair /\ [][NextStale]_vars

\* ================================================================ properties
GvtReturned(p) == ret[p].path # "none"
\* DoRequest has returned (and DecodeResponse or Auth.GenerateToken may have
\* been called since).
DoRequestReturned(p) ==
    \/ pc[p] \in {"done", "decoded"}
    \/ pc[p] = "generated" /\ path[p] # ""
Calls(p) == Len(sends[p])
Waits(p) == Len(waitLog[p])

\* ------------------------------------------------------------------------ C1
\* C1 as stated: N callers were inside getValidToken at once while the cache
\* was stale, and all have returned: GenerateToken was called exactly once.
C1_ExactlyOneExchange ==
    (together /\ \A p \in Callers : GvtReturned(p)) => exchangeCalls = 1

\* Every successful exchange so far returned a token that is still valid.
AllMintedValid == \A m \in minted : TokenValid(m[1], m[2], now)

\* C1, amended: N callers were inside getValidToken at once while the cache
\* was stale, and all have returned; if no exchange failed and every exchange
\* returned a non-empty token whose expiry is still more than a minute away,
\* GenerateToken was called exactly once.
C1_NoStampede ==
    (/\ together
     /\ \A p \in Callers : GvtReturned(p)
     /\ exchFails = 0
     /\ AllMintedValid)
    => exchangeCalls = 1

\* All callers met at the stale cache, one minted and another found the new
\* token in its double check.
C1_Witness ==
    /\ together
    /\ \A p \in Callers : GvtReturned(p)
    /\ exchFails = 0
    /\ AllMintedValid
    /\ exchangeCalls = 1
    /\ \E p, q \in Callers : ret[p].path = "mint" /\ ret[q].path = "dcheck"

\* ------------------------------------------------------------------------ C2
\* C2 as stated: whenever getValidToken returned a token without error, on any
\* of its three paths, the expiry recorded for the token was more than a
\* minute after the time of the return.
C2_MarginOnEveryPath ==
    \A p \in Callers :
        ret[p].path \in {"fast", "dcheck", "mint"} => ret[p].at + Minute < ret[p].exp

\* C2, amended: on the fast path and on the double-check hit the token returned
\* is non-empty and its recorded expiry is more than a minute after the time
\* of the return; a freshly minted token is returned with the expiry the
\* exchange reported, whatever it is.
C2_MarginOnCachedPaths ==
    \A p \in Callers :
        /\ ret[p].path \in {"fast", "dcheck"} =>
              /\ ret[p].tok # EmptyToken
              /\ ret[p].at + Minute < ret[p].exp
        /\ ret[p].path = "mint" => <<ret[p].tok, ret[p].exp>> \in minted

\* One caller returned on the fast path and the clock has moved since a mint.
C2_Witness ==
    \E p, q \in Callers :
        /\ ret[p].path = "fast"
        /\ ret[q].path = "mint"
        /\ ret[q].at < ret[p].at

\* ------------------------------------------------------------------------ C3
\* C3: a getValidToken call during which the cache held a valid token all along
\* returned on the fast path, with the cache's token, without calling
\* GenerateToken and without taking the write lock.
C3_FastPath ==
    \A p \in Callers :
        (GvtReturned(p) /\ validAll[p]) =>
            /\ ret[p].path = "fast"
            /\ ret[p].tok = ret[p].cur
            /\ ret[p].tok # EmptyToken
            /\ exchBy[p] = 0

\* A caller went through getValidToken while the cache was valid.
C3_Witness ==
    \E p \in Callers :
        /\ validAll[p]
        /\ ret[p].path = "fast"
        /\ exchangeCalls = 1

\* ------------------------------------------------------------------------ C7
\* C7: a caller whose context is cancelled while it waits in tokenMu.Lock(),
\* the lock held by a caller whose exchange is in flight, can return at once:
\* it has a step to take before the lock holder's exchange returns.
C7_LockWaitCancellable ==
    \A p \in Callers :
        (/\ pc[p] = "gvt_lock"
         /\ cancelled[p]
         /\ writer # NoOne
         /\ pc[writer] = "gen_wait")
        => ENABLED TokenStep(p)

\* ------------------------------------------------------------------------ C4
Is2xx(status) == status >= 200 /\ status < 300

\* C4: a call that has returned, whose context was not cancelled and whose
\* every attempt was answered 429, made exactly 3 transport calls, waited after
\* the 1st and after the 2nd and not after the 3rd, and returned a nil response
\* with a RateLimitError, which is no APIError.
C4_RateLimitExhausted ==
    \A p \in Callers :
        (/\ DoRequestReturned(p)
         /\ ~cancelled[p]
         /\ Calls(p) >= 1
         /\ \A k \in 1..Calls(p) : sends[p][k].status = StatusTooManyRequests)
        => /\ Calls(p) = 3
           /\ Waits(p) = 2
           /\ \A k \in 1..2 : waitLog[p][k].at = sends[p][k].at
           /\ \A k \in 1..2 : sends[p][k + 1].at >= waitLog[p][k].at
           /\ IsRateLimitError(result[p])
           /\ ~IsAPIError(result[p])
           /\ result[p].resp = 0

\* Three attempts, all answered 429 with Retry-After: 1.
C4_Witness ==
    \E p \in Callers :
        /\ pc[p] = "done"
        /\ ~cancelled[p]
        /\ Calls(p) = 3
        /\ \A k \in 1..3 : /\ sends[p][k].status = StatusTooManyRequests
                           /\ sends[p][k].hdr = SecondsHeader(1)
        /\ IsRateLimitError(result[p])

\* ------------------------------------------------------------------------ C5
\* C5: a call that has returned, whose first attempt was answered 429 and whose
\* second a 2xx status, returned that response with a nil error after exactly
\* 2 transport calls, the second one no earlier than the first plus the delay
\* getRetryAfter made of the first response's header.
C5_RetryThenSuccess ==
    \A p \in Callers :
        (/\ DoRequestReturned(p)
         /\ Calls(p) >= 2
         /\ sends[p][1].status = StatusTooManyRequests
         /\ Is2xx(sends[p][2].status))
        => /\ Calls(p) = 2
           /\ result[p].resp = sends[p][2].status
           /\ result[p].err = NilErr
           /\ sends[p][2].at >= sends[p][1].at + getRetryAfter(sends[p][1].hdr, sends[p][1].at)

\* 429 with Retry-After: 1, then 200 a second later.
C5_Witness ==
    \E p \in Callers :
        /\ pc[p] = "done"
        /\ Calls(p) = 2
        /\ sends[p][1].status = StatusTooManyRequests
        /\ sends[p][1].hdr = SecondsHeader(1)
        /\ sends[p][2].status = 200
        /\ sends[p][2].at = sends[p][1].at + Second
        /\ result[p].resp = 200

\* ------------------------------------------------------------------------ C6
CancelledInWait(p) == cancelInfo[p].pc = "wait"

\* C6 as stated: a call whose context was cancelled during a retry wait
\* returned the context's error and made no transport call after the
\* cancellation.
C6_CancelEndsWait ==
    \A p \in Callers :
        (DoRequestReturned(p) /\ CancelledInWait(p))
        => /\ result[p] = CtxErr
           /\ Calls(p) = cancelInfo[p].calls

\* C6, amended: a call whose context was cancelled during a retry wait never
\* returned a RateLimitError or a response.  It returned the context's error
\* without a further transport call, or, only if the delay timer had fired as
\* well when it left the select (as it has from the start for a zero or
\* negative delay), it made one more transport call, which failed on the
\* cancelled context, and returned that error wrapped.
C6_CancelOrTimer ==
    \A p \in Callers :
        (DoRequestReturned(p) /\ CancelledInWait(p))
        => /\ ~IsRateLimitError(result[p])
           /\ result[p].resp = 0
           /\ \/ /\ result[p].err = "ctx"
                 /\ Calls(p) = cancelInfo[p].calls
              \/ /\ result[p].err = "wrapped"
                 /\ result[p].cause = "transport"
                 /\ Calls(p) = cancelInfo[p].calls + 1
                 /\ sends[p][Calls(p)].status = 0
                 /\ sends[p][Calls(p)].at >=
                       waitLog[p][Waits(p)].at + waitLog[p][Waits(p)].delay

\* Cancelled while the timer had a second to go: the context's error, no
\* further call.
C6_Witness ==
    \E p \in Callers :
        /\ pc[p] = "done"
        /\ CancelledInWait(p)
        /\ result[p].err = "ctx"
        /\ Calls(p) = cancelInfo[p].calls
        /\ waitLog[p][Waits(p)].delay = Second
        /\ now < waitLog[p][Waits(p)].at + Second

\* ------------------------------------------------------------------------ C8
\* C8: a response whose status is neither 429 nor 2xx ends the call at once:
\* it is the last transport call, no wait follows it, and it is returned as it
\* is with a nil error; if it answers the first attempt, the call made exactly
\* 1 transport call and no wait.
C8_NoRetryOnOtherStatus ==
    \A p \in Callers : \A k \in 1..Calls(p) :
        (/\ sends[p][k].status # 0
         /\ sends[p][k].status # StatusTooManyRequests
         /\ ~Is2xx(sends[p][k].status))
        => /\ k = Calls(p)
           /\ DoRequestReturned(p)
           /\ result[p].resp = sends[p][k].status
           /\ result[p].err = NilErr
           /\ Waits(p) = k - 1
           /\ \A j \in 1..(k - 1) : sends[p][j].status = StatusTooManyRequests

\* A 404 to the first attempt.
C8_Witness ==
    \E p \in Callers :
        /\ pc[p] = "done"
        /\ Calls(p) = 1
        /\ sends[p][1].status = 404
        /\ result[p].resp = 404
        /\ Waits(p) = 0

\* ------------------------------------------------------------------------ C9
\* C9: a transport call that failed, the first or a retry, is the last one of
\* its DoRequest, no wait follows it, and the call returned an error wrapping
\* the transport's, which is no RateLimitError and no APIError.
C9_TransportErrorFatal ==
    \A p \in Callers : \A k \in 1..Calls(p) :
        sends[p][k].status = 0
        => /\ k = Calls(p)
           /\ DoRequestReturned(p)
           /\ result[p].resp = 0
           /\ result[p].err = "wrapped"
           /\ result[p].cause = "transport"
           /\ ~IsRateLimitError(result[p])
           /\ ~IsAPIError(result[p])
           /\ Waits(p) = k - 1

\* A retry after a 429 failed in the transport.
C9_Witness ==
    \E p \in Callers :
        /\ pc[p] = "done"
        /\ Calls(p) = 2
        /\ sends[p][1].status = StatusTooManyRequests
        /\ sends[p][2].status = 0
        /\ ~cancelled[p]
        /\ result[p].cause = "transport"

\* ----------------------------------------------------------------------- C10
\* C10: when getValidToken failed, DoRequest has returned a nil response and
\* an error wrapping the token error, itself no APIError and no
\* RateLimitError; it made no transport call for the request and called
\* GenerateToken exactly once.
C10_TokenFailureFatal ==
    \A p \in Callers :
        ret[p].path = "fail"
        => /\ DoRequestReturned(p)
           /\ result[p].resp = 0
           /\ result[p].err = "wrapped"
           /\ result[p].cause = "token"
           /\ ~IsAPIError(result[p])
           /\ ~IsRateLimitError(result[p])
           /\ Calls(p) = 0
           /\ exchBy[p] = 1

\* The exchange answered 429.
C10_Witness ==
    \E p \in Callers :
        /\ ret[p].path = "fail"
        /\ ret[p].exch = StatusTooManyRequests
        /\ pc[p] = "done"
        /\ Calls(p) = 0
        /\ exchBy[p] = 1

\* ----------------------------------------------------------------------- C11
\* C11: while a caller's exchange is in flight, up to and including the step in
\* which it fails, no step changes accessToken or tokenExpiry; the failing step
\* releases the exclusive lock and leaves the cache without a valid token, so
\* the next caller to take the lock calls GenerateToken again; and a caller
\* returns without an exchange of its own only with a token that a successful
\* exchange returned.
C11_FailureKeepsCache ==
    /\ [][\A p \in Callers :
            pc[p] = "gen_wait" =>
               /\ accessToken' = accessToken
               /\ tokenExpiry' = tokenExpiry
               /\ ret'[p].path = "fail" =>
                     /\ writer = p
                     /\ writer' = NoOne
                     /\ ~CacheValid']_vars
    /\ [](\A q \in Callers :
            /\ (pc[q] = "gvt_lock" /\ CanLock /\ ~CacheValid) =>
                  ENABLED (GvtLock(q) /\ pc'[q] = "gen_wait")
            /\ ret[q].path \in {"fast", "dcheck"} =>
                  /\ exchBy[q] = 0
                  /\ <<ret[q].tok, ret[q].exp>> \in minted)

\* A stale token was in the cache, an exchange failed, the token is still
\* there and the lock is free.
C11_Witness ==
    \E p \in Callers :
        /\ ret[p].path = "fail"
        /\ accessToken # EmptyToken
        /\ ~CacheValid
        /\ writer = NoOne
        /\ exchangeCalls >= 2

\* ----------------------------------------------------------------------- C12
\* The pairs written together: the fresh Client's, and each successful
\* exchange's.
WrittenTogether == {<<EmptyToken, ZeroTime>>} \cup minted

\* C12: the (accessToken, tokenExpiry) pair a getValidToken caller has read,
\* under the read lock or in its double check, is the fresh client's empty pair
\* or the pair one successful exchange returned; so is the pair in the cache
\* whenever no caller holds the exclusive lock.
C12_AtomicReplacement ==
    /\ \A p \in Callers :
          /\ pc[p] = "gvt_check" => <<token[p], expiry[p]>> \in WrittenTogether
          /\ ret[p].path \in {"fast", "dcheck"} =>
                <<ret[p].tok, ret[p].exp>> \in WrittenTogether
    /\ writer = NoOne => <<accessToken, tokenExpiry>> \in WrittenTogether

\* A caller has read, under the read lock, the pair another caller's exchange
\* wrote.
C12_Witness ==
    \E p, q \in Callers :
        /\ pc[p] = "gvt_check"
        /\ token[p] # EmptyToken
        /\ <<token[p], expiry[p]>> \in minted
        /\ ret[q].path = "mint"

\* ----------------------------------------------------------------------- C13
\* The callers between tokenMu.Lock() and the deferred Unlock.
InRefresh == {p \in Callers : pc[p] \in {"gen_wait", "gvt_store", "gvt_store_exp"}}

\* C13: at most one caller is between taking the exclusive lock and releasing
\* it, that caller is the lock's holder, no caller holds the read lock
\* meanwhile, and so at most one GenerateToken call is in flight.
C13_OneRefreshInFlight ==
    /\ Cardinality(InRefresh) <= 1
    /\ \A p \in InRefresh : writer = p /\ readers = {}
    /\ Cardinality({p \in Callers : pc[p] = "gen_wait"}) <= 1
    /\ writer # NoOne => writer \in InRefresh

\* One caller's exchange is in flight while another, which missed the fast
\* path as well, waits for the lock.
C13_Witness ==
    \E p, q \in Callers :
        /\ pc[p] = "gen_wait"
        /\ writer = p
        /\ pc[q] = "gvt_lock"
        /\ exchangeCalls = 1

\* ----------------------------------------------------------------------- C14
\* DoRequest has returned an error, or DecodeResponse has returned.
Finished(p) == (pc[p] = "done" /\ result[p].err # NilErr) \/ pc[p] = "decoded"

\* The error of DoRequest followed by DecodeResponse, as a request builder's Do
\* returns it.
FinalErr(p) ==
    IF result[p].err # NilErr THEN [err |-> result[p].err] ELSE [err |-> decoded[p].err]

LastStatus(p) == sends[p][Calls(p)].status

\* C14: over every outcome of DoRequest followed by DecodeResponse, the error
\* is never both a RateLimitError and an APIError; after a third 429 it is a
\* RateLimitError and no APIError; after a response that is neither 2xx nor 429
\* it is an APIError and no RateLimitError; after a failed token refresh
\* (whatever the exchange answered), a failed transport call, a cancelled wait,
\* or a 2xx body that does not parse, it is neither.
C14_ErrorClasses ==
    \A p \in Callers :
        Finished(p) =>
            /\ ~(IsRateLimitError(FinalErr(p)) /\ IsAPIError(FinalErr(p)))
            /\ (Calls(p) = maxRetries /\ LastStatus(p) = StatusTooManyRequests) =>
                  IsRateLimitError(FinalErr(p)) /\ ~IsAPIError(FinalErr(p))
            /\ (/\ Calls(p) >= 1
                /\ LastStatus(p) \notin {0, StatusTooManyRequests}
                /\ ~Is2xx(LastStatus(p))) =>
                  IsAPIError(FinalErr(p)) /\ ~IsRateLimitError(FinalErr(p))
            /\ (\/ ret[p].path = "fail"
                \/ (Calls(p) >= 1 /\ LastStatus(p) = 0)
                \/ result[p] = CtxErr
                \/ (/\ Calls(p) >= 1
                    /\ Is2xx(LastStatus(p))
                    /\ decoded[p].hasTarget
                    /\ ~decoded[p].bodyOK)) =>
                  /\ FinalErr(p).err # NilErr
                  /\ ~IsAPIError(FinalErr(p))
                  /\ ~IsRateLimitError(FinalErr(p))

\* The token refresh failed on a 401 from the exchange: neither class.
C14_Witness ==
    \E p \in Callers :
        /\ Finished(p)
        /\ ret[p].path = "fail"
        /\ ret[p].exch = 401
        /\ ~IsAPIError(FinalErr(p))
        /\ ~IsRateLimitError(FinalErr(p))

\* ----------------------------------------------------------------------- C15
\* C15: a RateLimitError is returned only after a third 429, and its
\* RetryAfter is the delay getRetryAfter made of that third response's header
\* when it arrived.
C15_LastDelay ==
    \A p \in Callers :
        IsRateLimitError(result[p]) =>
            /\ Calls(p) = maxRetries
            /\ sends[p][maxRetries].status = StatusTooManyRequests
            /\ result[p].retryAfter =
                  getRetryAfter(sends[p][maxRetries].hdr, sends[p][maxRetries].at)

\* Retry-After was 1, then 0, then 2: the error carries 2 seconds.
C15_Witness ==
    \E p \in Callers :
        /\ IsRateLimitError(result[p])
        /\ sends[p][1].hdr = SecondsHeader(1)
        /\ sends[p][2].hdr = SecondsHeader(0)
        /\ sends[p][3].hdr = SecondsHeader(2)
        /\ result[p].retryAfter = 2 * Second

\* ----------------------------------------------------------------------- C16
\* DoRequest, and DecodeResponse after it, have returned (or were never called).
Terminated(p) == pc[p] \in {"off", "done", "decoded", "generated"}

TokenReturned(p) == ret[p].path \in {"fast", "dcheck", "mint"}

\* C17: every transport call DoRequest made for a path other than the exchange
\* path carried Bearer t, t the token getValidToken returned to that call;
\* GenerateToken's calls carried the Basic header and no bearer token; a
\* DoRequest call for the exchange path never entered getValidToken and carried
\* no bearer token; and every transport call made is in the record.
C17_AuthHeaderPerCall ==
    /\ \A w \in wire :
          /\ (w.via = "DoRequest" /\ w.path # ExchangePath) =>
                /\ TokenReturned(w.by)
                /\ w.auth = BearerAuth(ret[w.by].tok)
          /\ (w.via = "DoRequest" /\ w.path = ExchangePath) =>
                /\ ret[w.by].path = "none"
                /\ exchBy[w.by] = 0
                /\ w.auth.scheme # "Bearer"
          /\ w.via = "DoRequestWithBasicAuth" =>
                /\ w.auth.scheme = "Basic"
                /\ w.auth.token = EmptyToken
    /\ \A p \in Callers :
          /\ Calls(p) >= 1 => \E w \in wire : w.via = "DoRequest" /\ w.by = p
          /\ exchBy[p] >= 1 => \E w \in wire : w.via = "DoRequestWithBasicAuth" /\ w.by = p

\* A call for an API path was retried after a 429, each time with the bearer
\* token its own exchange had returned.
C17_Witness ==
    \E p \in Callers :
        /\ Calls(p) = 2
        /\ ret[p].path = "mint"
        /\ ret[p].tok # EmptyToken
        /\ WireCall("DoRequest", p, ApiPath, BearerAuth(ret[p].tok)) \in wire
        /\ \E w \in wire : w.via = "DoRequestWithBasicAuth" /\ w.auth.scheme = "Basic"

\* ----------------------------------------------------------------------- C18
\* The header was built from the username and the password.
ContainsCredentials(auth) == auth.basic # <<>>

\* C18: every transport call whose Authorization header was built from the
\* credentials went to /auth/v1/generate, with exactly the Basic header of the
\* credentials, and none of them was made through DoRequest.
C18_CredentialsOnlyToExchange ==
    \A w \in wire :
        /\ ContainsCredentials(w.auth) =>
              /\ w.path = "/auth/v1/generate"
              /\ w.via = "DoRequestWithBasicAuth"
              /\ w.auth = BasicAuth(Username, Password)
        /\ w.via = "DoRequest" => ~ContainsCredentials(w.auth)

\* The credentials went to the exchange, and the request that followed
\* carried none.
C18_Witness ==
    \E w, x \in wire :
        /\ ContainsCredentials(w.auth)
        /\ w.path = "/auth/v1/generate"
        /\ x.via = "DoRequest"
        /\ x.path = ApiPath
        /\ ~ContainsCredentials(x.auth)

\* ----------------------------------------------------------------------- C19
\* C19: DecodeResponse, for a status outside [200,300), returned an *APIError
\* with that status and the body's text; for a 2xx status and no target, nil;
\* for a 2xx status and a target, nil when the body parsed and otherwise an
\* error that is no APIError.
C19_DecodeContract ==
    \A p \in Callers :
        decoded[p].called =>
            LET d == decoded[p]
            IN  /\ ~Is2xx(d.status) =>
                      /\ d.err = "API"
                      /\ d.errStatus = d.status
                      /\ d.errMessage = d.body
                /\ (Is2xx(d.status) /\ ~d.hasTarget) => d.err = NilErr
                /\ (Is2xx(d.status) /\ d.hasTarget /\ d.bodyOK) => d.err = NilErr
                /\ (Is2xx(d.status) /\ d.hasTarget /\ ~d.bodyOK) =>
                      d.err \notin {NilErr, "API"}

\* A 300 with a body: an APIError with both.
C19_Witness ==
    \E p \in Callers :
        /\ decoded[p].called
        /\ decoded[p].status = 300
        /\ decoded[p].body = "not found"
        /\ decoded[p].err = "API"
        /\ decoded[p].errStatus = 300
        /\ decoded[p].errMessage = "not found"

\* ----------------------------------------------------------------------- C20
\* The delay the claim states for a header value: n seconds for an integer n,
\* the date minus now for an HTTP-date, 1 second for anything else.
StatedDelay(h, t) ==
    IF h.kind = "seconds" THEN h.val * Second
    ELSE IF h.kind = "date" THEN h.val - t
    ELSE Second

\* C20: the delay of every retry wait is the stated one for the Retry-After
\* value of the 429 before it: n seconds for an integer n, else the date minus
\* now for an HTTP-date, else exactly 1 second.
C20_OrderedFallback ==
    \A p \in Callers : \A k \in 1..Waits(p) :
        waitLog[p][k].delay = StatedDelay(sends[p][k].hdr, sends[p][k].at)

\* ----------------------------------------------------------------------- C21
\* The k-th response of p was a 429 whose Retry-After is an HTTP-date not
\* after the time it arrived, and a wait followed it.
PastDateWait(p, k) ==
    /\ k <= Waits(p)
    /\ sends[p][k].status = StatusTooManyRequests
    /\ sends[p][k].hdr.kind = "date"
    /\ sends[p][k].hdr.val <= sends[p][k].at

\* C21: after a 429 whose Retry-After is an HTTP-date in the past the delay is
\* not positive; while the call waits after it the timer has fired, so the
\* next attempt can start at once; and the call has not returned from that
\* wait unless its context was cancelled, in which case it returned no
\* RateLimitError.
C21_PastDateRetriesAtOnce ==
    \A p \in Callers : \A k \in 1..Waits(p) :
        PastDateWait(p, k) =>
            /\ waitLog[p][k].delay <= 0
            /\ (pc[p] = "wait" /\ Calls(p) = k) => ENABLED WaitTimer(p)
            /\ (DoRequestReturned(p) /\ Calls(p) = k) =>
                  /\ cancelled[p]
                  /\ result[p] = CtxErr

\* A 429 with a date one second in the past, and the second attempt made in
\* the same instant and answered 200.
C21_Witness ==
    \E p \in Callers :
        /\ PastDateWait(p, 1)
        /\ ~cancelled[p]
        /\ Calls(p) = 2
        /\ sends[p][2].at = sends[p][1].at
        /\ sends[p][2].status = 200
        /\ result[p] = OkResult(200)

\* ----------------------------------------------------------------------- C29
\* C29: a DoRequest call that has returned gave either a response and a nil
\* error or no response and an error, never both and never neither, and a
\* response it returned does not have status 429.
C29_ResultShape ==
    \A p \in Callers :
        DoRequestReturned(p) =>
            /\ (result[p].resp # 0) <=> (result[p].err = NilErr)
            /\ result[p].err # "none"
            /\ result[p].resp # StatusTooManyRequests

\* A 429, then a 500: the response is returned, with a nil error.
C29_Witness ==
    \E p \in Callers :
        /\ pc[p] = "done"
        /\ Calls(p) = 2
        /\ sends[p][1].status = StatusTooManyRequests
        /\ result[p].resp = 500
        /\ result[p].err = NilErr

\* ----------------------------------------------------------------------- C27
\* C27: every response body is released exactly once.  The body of a 429 is
\* closed once as soon as the attempt is over, so before the wait and before
\* DoRequest returns on the exhausted and the cancelled exits; a transport
\* error brings no body; the body of the response DoRequest returned is open
\* until DecodeResponse has run and closed once after it, whatever
\* DecodeResponse returned; no body is closed twice.
C27_BodiesReleasedOnce ==
    \A p \in Callers :
        /\ Len(closed[p]) = Len(sends[p])
        /\ \A k \in 1..Len(sends[p]) :
              /\ closed[p][k] <= 1
              /\ sends[p][k].status = 0 => closed[p][k] = 0
              /\ sends[p][k].status = StatusTooManyRequests => closed[p][k] = 1
              /\ (k < Len(sends[p]) \/ DoRequestReturned(p)) =>
                    (sends[p][k].status \notin {0, StatusTooManyRequests} =>
                        /\ k = Len(sends[p])
                        /\ closed[p][k] = IF decoded[p].called THEN 1 ELSE 0)
        /\ (pc[p] = "done" /\ result[p].err = NilErr) =>
              closed[p][Len(closed[p])] = 0
        /\ pc[p] = "decoded" => closed[p][Len(closed[p])] = 1

\* Two 429s and a 404: DecodeResponse returned an APIError, and each of the
\* three bodies was closed once.
C27_Witness ==
    \E p \in Callers :
        /\ pc[p] = "decoded"
        /\ Calls(p) = 3
        /\ sends[p][1].status = StatusTooManyRequests
        /\ sends[p][2].status = StatusTooManyRequests
        /\ decoded[p].err = "API"
        /\ closed[p] = <<1, 1, 1>>

\* ----------------------------------------------------------------------- C30
\* Caller p is in getValidToken with the exclusive lock, its exchange call
\* returned a token response, and it is at the assignment named by at.
StoringAt(p, at) ==
    /\ pc[p] = at
    /\ writer = p
    /\ <<tokenResp[p][1], Unix(tokenResp[p][2])>> \in minted

\* C30: a step changes the cached token only as getValidToken's assignment of
\* the token a successful exchange returned, made with the exclusive lock
\* held, and the cached expiry only as the assignment of that response's
\* expiry; every other step (an attempt of the retry loop whatever the status,
\* a wait, DecodeResponse, a failed exchange, a direct Auth.GenerateToken call)
\* leaves both fields as they were.
C30_CacheFrame ==
    [][ /\ accessToken' # accessToken =>
              \E p \in Callers : /\ StoringAt(p, "gvt_store")
                                  /\ pc'[p] = "gvt_store_exp"
                                  /\ accessToken' = tokenResp[p][1]
        /\ tokenExpiry' # tokenExpiry =>
              \E p \in Callers : /\ StoringAt(p, "gvt_store_exp")
                                  /\ pc'[p] = "header"
                                  /\ tokenExpiry' = Unix(tokenResp[p][2])
        /\ \A p \in Callers :
              (pc[p] \in {"header", "send", "wait", "done", "decoded", "gen_wait"}
                 /\ pc'[p] # pc[p]) => UNCHANGED cacheVars
      ]_vars

\* The call stored a token, was answered 403, had that response decoded, and
\* then called Auth.GenerateToken directly: the cache holds what getValidToken
\* stored.
C30_Witness ==
    \E p \in Callers :
        /\ pc[p] = "generated"
        /\ ret[p].path = "mint"
        /\ Calls(p) = 1
        /\ sends[p][1].status = 403
        /\ decoded[p].called
        /\ exchangeCalls = 2
        /\ accessToken # EmptyToken
        /\ accessToken = ret[p].tok
        /\ tokenExpiry = ret[p].exp

\* ----------------------------------------------------------------------- C26
\* The Authorization headers of the transport calls DoRequest made for p.
HeadersSent(p) == {w.auth : w \in {x \in wire : x.via = "DoRequest" /\ x.by = p}}

\* C26: a DoRequest call that made a transport call had getValidToken return
\* to it, not after the first transport call; every transport call of the
\* call, however many attempts it took, carried one and the same header, the
\* bearer token getValidToken returned, whatever the cache holds by then; and
\* the call made at most one exchange call.
C26_OneTokenPerCall ==
    \A p \in Callers :
        /\ exchBy[p] <= 1
        /\ (Calls(p) >= 1 /\ NeedsToken(path[p])) =>
              /\ ret[p].path \in {"fast", "dcheck", "mint"}
              /\ ret[p].at <= sends[p][1].at
              /\ HeadersSent(p) = {BearerAuth(ret[p].tok)}

\* The call sent its token, waited a second after a 429 and sent again;
\* meanwhile its token passed the margin and the other call stored a new one:
\* both attempts carried the old token.
C26_Witness ==
    \E p, q \in Callers :
        /\ p # q
        /\ Calls(p) = 2
        /\ sends[p][2].at > sends[p][1].at
        /\ ~TokenValid(ret[p].tok, ret[p].exp, sends[p][2].at)
        /\ ret[q].path = "mint"
        /\ ret[q].at < sends[p][2].at
        /\ accessToken = ret[q].tok
        /\ accessToken # ret[p].tok
        /\ HeadersSent(p) = {BearerAuth(ret[p].tok)}

\* ----------------------------------------------------------------------- C23
\* C23 as stated: a caller that waited for the exclusive lock while another
\* caller's exchange succeeded and its token was stored has, once it has the
\* lock, called no exchange, and returns that token by the double check.
C23_WaiterReturnsStored ==
    \A p \in Callers :
        (sawRefresh[p].seen /\ pc[p] # "gvt_lock") =>
            /\ exchBy[p] = 0
            /\ ret[p].path = "dcheck"
            /\ ret[p].tok = sawRefresh[p].tok

\* C23: when a caller that waited for the exclusive lock while another
\* caller stored a token takes the lock, the cache holds the token stored
\* last; if that token is non-empty and its expiry more than a minute away at
\* that moment the caller returns it, with that expiry, and calls no exchange;
\* otherwise it calls the exchange itself.
C23_DoubleCheckedRefresh ==
    [][\A p \in Callers :
          (pc[p] = "gvt_lock" /\ pc'[p] # "gvt_lock" /\ sawRefresh[p].seen) =>
              /\ accessToken = sawRefresh[p].tok
              /\ tokenExpiry = sawRefresh[p].exp
              /\ IF TokenValid(sawRefresh[p].tok, sawRefresh[p].exp, now)
                 THEN /\ pc'[p] = "header"
                      /\ ret'[p].path = "dcheck"
                      /\ ret'[p].tok = sawRefresh[p].tok
                      /\ ret'[p].exp = sawRefresh[p].exp
                      /\ exchBy'[p] = 0
                      /\ exchangeCalls' = exchangeCalls
                 ELSE /\ pc'[p] = "gen_wait"
                      /\ exchBy'[p] = 1
                      /\ exchangeCalls' = exchangeCalls + 1
      ]_vars

\* Both callers found the cache empty; one refreshed while the other waited
\* for the lock, and the other returned the stored token by the double check:
\* one exchange call, one token value.
C23_Witness ==
    \E p, q \in Callers :
        /\ p # q
        /\ sawRefresh[p].seen
        /\ ret[q].path = "mint"
        /\ ret[p].path = "dcheck"
        /\ ret[p].tok = ret[q].tok
        /\ ret[p].tok # EmptyToken
        /\ ~validAll[p]
        /\ exchBy[p] = 0
        /\ exchangeCalls = 1

\* ----------------------------------------------------------------------- C22
\* Caller p is inside getValidToken and the cached token has been valid since
\* it called.
CachedReader(p) == InGvt(p) /\ validAll[p]

\* C22: a caller for which the cached token has been valid since it called
\* is before or inside the read-locked section or at the fast path's test,
\* never at or past the exclusive lock; it returns by the fast path, having
\* called no exchange; and while every caller inside getValidToken is such a
\* caller nobody holds the exclusive lock and each of them can take its next
\* step at once, whichever others hold the read lock.
C22_ReadersNeverBlock ==
    /\ \A p \in Callers :
          /\ CachedReader(p) =>
                /\ pc[p] \in {"gvt_rlock", "gvt_runlock", "gvt_check"}
                /\ writer # p
                /\ exchBy[p] = 0
          /\ (validAll[p] /\ GvtReturned(p)) =>
                /\ ret[p].path = "fast"
                /\ exchBy[p] = 0
    /\ (\A q \in Callers : InGvt(q) => CachedReader(q)) =>
          /\ writer = NoOne
          /\ \A p \in Callers :
                CachedReader(p) =>
                    ENABLED (GvtRLock(p) \/ GvtRUnlock(p) \/ GvtCheck(p))

\* Both callers hold the read lock at once on a valid cached token, and
\* nobody is at the exclusive lock.
C22_Witness ==
    /\ Cardinality(readers) = 2
    /\ CacheValid
    /\ \A p \in readers : CachedReader(p)
    /\ writer = NoOne

\* ----------------------------------------------------------------------- C24
\* Caller p is the only one that has called.
Lone(p) == \A q \in Callers \ {p} : pc[q] \in {"idle", "off"}

\* The exchange calls made for p, as the server saw them.
ExchangeCallsOf(p) == {w \in wire : w.by = p /\ w.path = GenerateTokenPath}

\* C24: a lone caller that read an empty token, or an expiry that now + 1
\* minute is not strictly before, goes on to the exclusive lock, gets it,
\* misses the double check and calls the exchange: once, asking for a
\* validity of 10 minutes; it returns by no double-check hit; and when the
\* exchange succeeded the cache holds the token and the absolute expiry of the
\* response and the caller returned exactly that token.
C24_LoneSlowPath ==
    \A p \in Callers :
        Lone(p) =>
            /\ (pc[p] = "gvt_check" /\ (token[p] = EmptyToken \/ now + Minute >= expiry[p]))
                  => ~FastPathHit(p)
            /\ pc[p] = "gvt_lock" => (ENABLED GvtLock(p) /\ ~DoubleCheckHit)
            /\ pc[p] \in {"gvt_lock", "gvt_check", "gvt_runlock", "gvt_rlock"} =>
                  (exchBy[p] = 0 /\ ExchangeCallsOf(p) = {})
            /\ pc[p] \in {"gen_wait", "gvt_store", "gvt_store_exp"} =>
                  /\ exchBy[p] = 1
                  /\ writer = p
                  /\ ExchangeCallsOf(p) = {ExchangeCallWith(p, TenMinutes)}
                  /\ ExchangeCallWith(p, TenMinutes).query = <<"expiry", <<10, "m", 0, "s">>>>
            /\ GvtReturned(p) =>
                  /\ ret[p].path # "dcheck"
                  /\ ret[p].path = "fast" => exchBy[p] = 0
                  /\ ret[p].path \in {"mint", "fail"} =>
                        /\ exchBy[p] = 1
                        /\ ExchangeCallsOf(p) = {ExchangeCallWith(p, TenMinutes)}
                  /\ ret[p].path = "mint" =>
                        /\ accessToken = tokenResp[p][1]
                        /\ tokenExpiry = Unix(tokenResp[p][2])
                        /\ ret[p].tok = accessToken
                        /\ ret[p].exp = tokenExpiry
                        /\ token[p] = accessToken

\* A lone caller read a token whose expiry was exactly a minute away, called
\* the exchange and returned the new token, which is in the cache.
C24_Witness ==
    \E p \in Callers :
        /\ Lone(p)
        /\ now = 0
        /\ expiry[p] = now + Minute
        /\ ret[p].path = "mint"
        /\ exchBy[p] = 1
        /\ ret[p].tok = accessToken
        /\ accessToken \notin {EmptyToken, 1}
        /\ tokenExpiry = Unix(tokenResp[p][2])

\* ----------------------------------------------------------------------- C28
\* Caller p holds the token lock in some mode.
HoldsLock(p) == writer = p \/ p \in readers

\* C28: the exchange call made under the exclusive lock is answered whoever
\* holds or awaits the lock; a caller outside getValidToken holds the lock in
\* no mode, so with no caller inside the lock is free; at any time some caller
\* inside getValidToken can take a step; and, every goroutine taking its steps
\* and the exchange answering, every caller that entered getValidToken leaves
\* it.
C28_LockDiscipline ==
    /\ [](\A p \in Callers :
            /\ pc[p] = "gen_wait" => (writer = p /\ ENABLED GenerateTokenReturn(p))
            /\ ~InGvt(p) => ~HoldsLock(p)
            /\ HoldsLock(p) => pc[p] \in {"gvt_runlock", "gen_wait", "gvt_store",
                                          "gvt_store_exp"})
    /\ []((\A p \in Callers : ~InGvt(p)) => (writer = NoOne /\ readers = {}))
    /\ []((\E p \in Callers : InGvt(p)) => \E p \in Callers : ENABLED TokenStep(p))
    /\ \A p \in Callers : InGvt(p) ~> ~InGvt(p)

\* Both callers have returned from getValidToken, one of them through the
\* error return of a failed exchange made while the other waited for the
\* lock, and the lock is free.
C28_Witness ==
    \E p, q \in Callers :
        /\ p # q
        /\ ret[p].path = "fail"
        /\ GvtReturned(q)
        /\ exchBy[q] = 1
        /\ ret[q].at >= ret[p].at
        /\ writer = NoOne
        /\ readers = {}

\* ----------------------------------------------------------------------- C25
\* Some required field of the builder p uses is unset.
RequiredUnset(p) ==
    \E k \in 1..Len(built[p].required) : built[p].required[k] \notin built[p].set

\* C25: once Do was called on a builder with a required field unset it has
\* returned no result and an error naming the first such field, and
\* DoRequest was never entered: no path was set, getValidToken was not
\* called, no lock is held, no exchange call and no transport call was made;
\* with every required field set Do is not rejected and enters DoRequest.
C25_RequiredFieldsChecked ==
    \A p \in Callers :
        (built[p] # NoBuilder /\ pc[p] # "idle") =>
            IF RequiredUnset(p)
            THEN /\ pc[p] = "rejected"
                 /\ result[p].resp = 0
                 /\ result[p].err = "required"
                 /\ result[p].cause \notin built[p].set
                 /\ \E k \in 1..Len(built[p].required) :
                       /\ built[p].required[k] = result[p].cause
                       /\ \A j \in 1..(k - 1) : built[p].required[j] \in built[p].set
                 /\ path[p] = ""
                 /\ ~GvtReturned(p)
                 /\ token[p] = EmptyToken
                 /\ writer # p /\ p \notin readers
                 /\ exchBy[p] = 0
                 /\ Calls(p) = 0
                 /\ {w \in wire : w.by = p} = {}
            ELSE /\ pc[p] # "rejected"
                 /\ path[p] = ApiPath

\* Do on an events builder with the name and to_height set and from_height
\* left 0 was rejected for from_height.
C25_Witness ==
    \E p \in Callers :
        /\ pc[p] = "rejected"
        /\ built[p].name = "EventsRequestBuilder"
        /\ built[p].set = {"name", "toHeight"}
        /\ result[p].cause = "fromHeight"
        /\ wire = {}

====
